---- MODULE Spec2Model ----
(***************************************************************************)
(* State-machine model of src/msr.py, the standalone PR miner:             *)
(*   request_with_backoff, fetch_prs_with_time_partition,                  *)
(*   fetch_all_prs_metadata, save_pr_metadata_to_hf,                       *)
(*   get_latest_pr_date_for_agent, load_pr_metadata_for_year,              *)
(*   update_all_agents_incremental, run_once.                              *)
(*                                                                         *)
(* Time is counted in ticks; one tick stands for one second (the           *)
(* resolution of created_at and of the "+ 1 second" of the watermark).     *)
(* The numeric program constants are scaled down so that every case of     *)
(* the code (full page, short page, page ceiling, overflow, lookback       *)
(* clamp) is reached on small data:                                        *)
(*   per_page 100 -> 2, page ceiling 10 -> 2, result window 1000 -> 4,     *)
(*   lookback 180 days -> 2 days, one day 86400 s -> 4 seconds,            *)
(*   one year -> 3 days,                                                   *)
(*   debug limit 10 -> 1 (still smaller than per_page, as in the code).    *)
(* In Spec the wall clock is read every half day, so that watermark + 1 s  *)
(* falls on the watermark's own day, as it does in the code outside the    *)
(* last second of a day.  request_with_backoff keeps its own constants     *)
(* (10 attempts, 1 s to 60 s delay, 120 s and 60 s caps), in half seconds. *)
(*                                                                         *)
(* Specifications: Spec (cycles of one identity, production mode),         *)
(* FetchSpec (one mining pass), RosterSpec (cycles over several roster     *)
(* entries, production and debug mode), StatsSpec (the aggregation of one  *)
(* identity), BackoffSpec and WaitSpec (one call of request_with_backoff). *)
(***************************************************************************)
EXTENDS Integers, Sequences, FiniteSets, TLC

\* ------------------------------------------------------------------------
\* Program constants (scaled, see above)
\* ------------------------------------------------------------------------
per_page == 2
PageCeiling == 2
ResultWindow == 4
LookbackDays == 2
DayLen == 4
DebugLimit == 1
NumPatterns == 3
YearDays == 3

\* ------------------------------------------------------------------------
\* Bounds of the model
\* ------------------------------------------------------------------------
\* number of pull requests the provider holds in FetchSpec
MaxPRs == 5
\* number of pull requests created upstream in Spec
MaxUpstream == 2
\* last second of the wall clock in Spec
MaxNow == 12
\* number of cycles (run_once) of the loop in Spec
MaxCycles == 3
\* number of failed requests and store operations in one run
MaxFailures == 1
\* Python's recursion limit (sys.getrecursionlimit()), as a number of nested
\* fetch_prs_with_time_partition frames
MaxDepth == 6

None == -1

\* the identifiers an agent file of SWE-Arena/pr_agents may carry
Agents == {"a1", "a2"}

Max(a, b) == IF a >= b THEN a ELSE b
Min(a, b) == IF a <= b THEN a ELSE b

\* strftime('%Y-%m-%d'): the calendar day of a timestamp
Day(t) == t \div DayLen

\* the year of a calendar day (the YYYY of a shard name, datetime.now().year)
Year(d) == d \div YearDays

\* timedelta(days=1), timedelta(seconds=1), timedelta(days=180)
OneDay == DayLen
OneSecond == 1
\* the wall clock of Spec is read every half day
HalfDay == DayLen \div 2
Lookback == LookbackDays * DayLen

\* the time of the pass in FetchSpec: the lookback floor falls inside day 0
FetchNow == Lookback + 1

\* timedelta / 2 rounds half to even (datetime._divide_and_round)
HalfOf(d) ==
    LET q == d \div 2
        r == d % 2
    IN  IF r = 1 /\ q % 2 = 1 THEN q + 1 ELSE q

VARIABLES
    now,            \* the wall clock, datetime.now(timezone.utc)
    roster,         \* SWE-Arena/pr_agents: the github_identifier of each agent file
    upstream,       \* the provider's pull requests: id -> raw item
    shards,         \* SWE-Arena/pr_metadata: <<identifier, day>> -> records of the day file
    leaderboard,    \* SWE-Arena/pr_leaderboard: year -> rows of {year}.csv
    DEBUG_MODE,     \* the module-level flag
    DEBUG_PR_METADATA_CACHE,    \* identifier -> records (debug mode only)
    DEBUG_LEADERBOARD_CACHE,    \* rows (debug mode only)
    pc,             \* control location of the cycle
    agent_idx,      \* update_all_agents_incremental: position in the roster
    current_year,   \* update_all_agents_incremental: datetime.now().year
    cache_dict,     \* update_all_agents_incremental: rows built so far
    latest_pr_date, \* update_all_agents_incremental: the watermark resolved, or None
    start_date,     \* fetch_all_prs_metadata: window start
    end_date,       \* fetch_all_prs_metadata: window end
    pattern,        \* fetch_all_prs_metadata: index of the query pattern being run
    initial_count,  \* fetch_all_prs_metadata: len(prs_by_id) before the pattern's call
    prs_by_id,      \* fetch_all_prs_metadata: the dedup map, in insertion order
    stack,          \* frames of fetch_prs_with_time_partition, innermost last
    ret,            \* value returned by the frame that just ended, or None
    new_metadata,   \* the list fetch_all_prs_metadata returned
    grouped,        \* save_pr_metadata_to_hf: day groups not yet uploaded
    hist,           \* history variables, read by the properties only
    rb              \* one call of request_with_backoff (BackoffSpec)

vars == <<now, roster, upstream, shards, leaderboard, DEBUG_MODE, DEBUG_PR_METADATA_CACHE,
          DEBUG_LEADERBOARD_CACHE, pc, agent_idx, current_year, cache_dict,
          latest_pr_date, start_date, end_date, pattern, initial_count, prs_by_id,
          stack, ret, new_metadata, grouped, hist, rb>>

\* what no step of the miner changes: the environment, and the request call
\* that BackoffSpec follows on its own
envVars == <<now, roster, upstream, rb>>
storeVars == <<shards, leaderboard>>
debugVars == <<DEBUG_MODE, DEBUG_PR_METADATA_CACHE, DEBUG_LEADERBOARD_CACHE>>
cycleVars == <<agent_idx, current_year, cache_dict, latest_pr_date>>
windowVars == <<start_date, end_date>>
saveVars == <<new_metadata, grouped>>

\* for agent in agents: identifier = agent.get('github_identifier')
agent == roster[agent_idx]

\* ------------------------------------------------------------------------
\* History variables (not program state)
\*   call_failed    a request of the current top-level partition call failed
\*   leaf_over      a frame left its loop normally although total_count > window
\*   delivered      <<id, pattern>> pairs some response of this pass carried
\*   clean          no request and no store operation failed in this cycle so far
\*   prev_clean     the previous cycle ran to its end with no failure
\*   changed        the provider's data changed since the previous cycle ended
\*   fetch_failed   identities whose mining had a failed request in this cycle
\*   missed         items inside the window of a mining pass with a failed request
\*                  that the pass left unpersisted
\*   prior_watermark  identifier -> latest watermark resolved in an earlier cycle
\*   last_save      what the last shard upsert did
\*   cycles         number of cycles started
\*   failures       number of failed requests and store operations so far
\*   prev_year      current_year of the previous cycle
\*   prev_shards, prev_leaderboard   the store as the previous cycle left it
\* ------------------------------------------------------------------------
NoSave == [outcome |-> "none", replaced |-> 0, added |-> 0, kept |-> 0]

\* the outcomes of an operation that may fail: TRUE is success
Outcomes(budget) == IF budget < hist.allowed THEN {TRUE, FALSE} ELSE {TRUE}

Cost(ok) == IF ok THEN 0 ELSE 1

HistInit ==
    [call_failed |-> FALSE, leaf_over |-> FALSE, delivered |-> {},
     clean |-> TRUE, prev_clean |-> FALSE, changed |-> FALSE,
     fetch_failed |-> {}, missed |-> {},
     prior_watermark |-> [a \in Agents |-> None],
     last_save |-> NoSave, cycles |-> 0, failures |-> 0, prev_year |-> None,
     prev_shards |-> <<>>, prev_leaderboard |-> <<>>,
     allowed |-> MaxFailures, attempted |-> <<>>, rowed |-> {}, tried |-> {}]

\* ------------------------------------------------------------------------
\* request_with_backoff.  Durations are in half seconds.
\* ------------------------------------------------------------------------
Seconds(n) == 2 * n

\* max_retries=10
DefaultMaxRetries == 10

\* the statuses a response may carry (the edges of the ranges the code tests)
StatusCodes == {199, 200, 299, 300, 403, 404, 429, 499, 500, 599, 600}

\* a wait before clamping: None, nan, or a duration
Duration(v) == [kind |-> "num", v |-> v]
NoWait == [kind |-> "none", v |-> 0]
NaN == [kind |-> "nan", v |-> 0]
\* float('inf'), larger than every duration compared with it
Infinity == Seconds(100000)

\* a header: absent (or empty), not a number, nan, inf, or a number
Header(kind, value) == [kind |-> kind, value |-> value]
Absent == Header("absent", 0)

\* Retry-After, in half seconds
RetryAfterValues ==
    {Absent, Header("bad", 0), Header("nan", 0), Header("inf", 0)}
    \cup {Header("num", v) : v \in {Seconds(-5), 0, 1, Seconds(1), Seconds(30),
                                    Seconds(120), Seconds(120) + 1, Seconds(1000)}}

\* X-RateLimit-Reset, as reset_ts - time.time() in half seconds
ResetValues ==
    {Absent, Header("bad", 0), Header("nan", 0), Header("inf", 0)}
    \cup {Header("num", v) : v \in {Seconds(-1000), Seconds(-2), 0, Seconds(10),
                                    Seconds(118), Seconds(119), Seconds(1000)}}

\* random.uniform(0, 0.5)
Jitter == {0, 1}

\* wait = float(retry_after), or None
RetryAfterWait(h) ==
    CASE h.kind = "num" -> Duration(h.value)
      [] h.kind = "inf" -> Duration(Infinity)
      [] h.kind = "nan" -> NaN
      [] OTHER -> NoWait

\* wait = max(reset_ts - time.time() + 2, 1), or None; int(float(.)) raises on
\* nan and inf
ResetWait(h) ==
    IF h.kind = "num" THEN Duration(Max(h.value + Seconds(2), Seconds(1))) ELSE NoWait

\* a clamp without the lower bound
Clamp_NoFloor(wait, hi) ==
    IF wait.kind = "nan" THEN Seconds(1) ELSE Min(wait.v, hi)

\* max(1.0, min(wait, hi)); a comparison with nan is false
Clamp(wait, hi) ==
    IF wait.kind = "nan" THEN Seconds(1) ELSE Max(Seconds(1), Min(wait.v, hi))

\* mutant: every 4xx status is retried
Retryable_All4xx(status) == 400 <= status /\ status < 600

\* status in (403, 429) or 500 <= status < 600
Retryable(status) == status \in {403, 429} \/ (500 <= status /\ status < 600)

Success(status) == 200 <= status /\ status < 300

\* a wait that looks at the rate-limit reset before Retry-After
StatusWait_ResetFirst(status, retry_after, reset_hdr, delay, jitter) ==
    LET w1 == IF status \in {403, 429} THEN ResetWait(reset_hdr) ELSE NoWait
        w2 == IF w1 = NoWait THEN RetryAfterWait(retry_after) ELSE w1
    IN  IF w2 = NoWait THEN Duration(delay + jitter) ELSE w2

\* the wait after a 403/429/5xx response, before clamping
StatusWait(status, retry_after, reset_hdr, delay, jitter) ==
    LET w1 == RetryAfterWait(retry_after)
        w2 == IF w1 = NoWait /\ status \in {403, 429} THEN ResetWait(reset_hdr) ELSE w1
    IN  IF w2 = NoWait THEN Duration(delay + jitter) ELSE w2

\* delay = min(delay * 2, 60.0)
NextDelay(delay) == Min(delay * 2, Seconds(60))

\* mutant: the loop makes one attempt more
MoreAttempts_OneMore(r) == r.attempt <= r.max_retries

\* for attempt in range(max_retries)
MoreAttempts(r) == r.attempt < r.max_retries

\* rb: pc         "try" (top of the loop), "sleep" (in time.sleep), "done"
\*     attempt    the loop variable: iterations completed so far
\*     delay      the backoff delay
\*     wait       the duration of the sleep in progress or last slept (0: none yet)
\*     status     the status of the last response (0: none yet)
\*     result     "pending", "response" (resp returned) or "none" (None returned)
\*   history, read by the properties only:
\*     requests   HTTP attempts issued;  sleeps  sleeps performed
\*     all_retry  every attempt so far ended in 403/429/5xx or a transport failure
\*     after      what the last sleep follows: "status" or "transport"
\*     trace      whether seen is kept (WaitSpec)
\*     seen       during a sleep: the headers of the response and the jitter drawn
NoResponse == [retry_after |-> Absent, reset_hdr |-> Absent, jitter |-> 0]

NewCall(n) ==
    [pc |-> "try", max_retries |-> n, attempt |-> 0, delay |-> Seconds(1),
     wait |-> 0, status |-> 0, result |-> "pending",
     requests |-> 0, sleeps |-> 0, all_retry |-> TRUE, after |-> "none",
     trace |-> FALSE, seen |-> NoResponse]

\* no call of request_with_backoff is followed (Spec, FetchSpec)
NoCall == [NewCall(0) EXCEPT !.pc = "done", !.result = "none"]

\* ------------------------------------------------------------------------
\* The search provider (GET /search/issues, sort=created, order=asc)
\* ------------------------------------------------------------------------
Matches(a, p, ds, de) ==
    {id \in DOMAIN upstream :
        /\ upstream[id].agent = a
        /\ p \in upstream[id].pats
        /\ Day(upstream[id].created_at) \in ds..de}

Earliest(S) ==
    CHOOSE id \in S : \A o \in S :
        \/ upstream[id].created_at < upstream[o].created_at
        \/ upstream[id].created_at = upstream[o].created_at /\ id <= o

RECURSIVE SortByCreated(_)
SortByCreated(S) ==
    IF S = {} THEN <<>>
    ELSE LET id == Earliest(S) IN <<id>> \o SortByCreated(S \ {id})

\* the raw item of a response; via is the query pattern whose response carried
\* this object (the identity of the Python dict stored in the dedup map)
RawItem(id, p) ==
    [id |-> id,
     html_url |-> upstream[id].html_url,
     created_at |-> upstream[id].created_at,
     merged_at |-> upstream[id].merged_at,
     closed_at |-> upstream[id].closed_at,
     via |-> p]

SearchPage(a, p, ds, de, page) ==
    LET all == SortByCreated(Matches(a, p, ds, de))
        lo == (page - 1) * per_page + 1
        hi == Min(page * per_page, Len(all))
    IN  [total_count |-> Len(all),
         items |-> [k \in 1..Max(hi - lo + 1, 0) |-> RawItem(all[lo + k - 1], p)]]

\* ------------------------------------------------------------------------
\* fetch_prs_with_time_partition
\* ------------------------------------------------------------------------
Ids(map) == {map[k].id : k \in 1..Len(map)}

debug_limit == IF DEBUG_MODE THEN DebugLimit ELSE None

NewFrame(s, e) ==
    [start |-> s, end |-> e, page |-> 1, total_in_partition |-> 0,
     pos |-> "loop", mid_date |-> None, count1 |-> 0]

\* mutant: the membership test is forgotten
KeepItem_NoMembership(map, pr) == pr.id # 0

\* if pr_id and pr_id not in prs_by_id
KeepItem(map, pr) == pr.id # 0 /\ pr.id \notin Ids(map)

\* for pr in items: prs_by_id[pr_id] = pr
RECURSIVE AddItems(_, _)
AddItems(map, items) ==
    IF items = <<>> THEN map
    ELSE AddItems(IF KeepItem(map, Head(items)) THEN Append(map, Head(items)) ELSE map,
                  Tail(items))

\* if total_count > 1000 and page == 10
Overflow(total_count, page) == total_count > ResultWindow /\ page = PageCeiling

\* a loop that goes on after a short page
LastPage_IgnoresShort(items, page) == page >= PageCeiling

\* if len(items) < per_page or page >= 10
LastPage(items, page) == Len(items) < per_page \/ page >= PageCeiling

\* mid_date = start_date + time_diff / 2
mid_date_of(f) == f.start + HalfOf(f.end - f.start)

\* mutant: the second half starts two days after the midpoint
SecondHalfStart_SkipsDay(mid) == mid + OneDay + OneDay

\* mid_date + timedelta(days=1)
SecondHalfStart(mid) == mid + OneDay

\* return count1 + count2
SplitResult(f, count2) == f.count1 + count2

Top == stack[Len(stack)]
Below == SubSeq(stack, 1, Len(stack) - 1)

\* a return that unwinds every enclosing partition as well
ReturnFromTop_Unwinds(value) ==
    /\ stack' = <<>>
    /\ ret' = value

ReturnFromTop(value) ==
    /\ stack' = Below
    /\ ret' = value

\* the outcomes of one page request: a 200 response, the exhausted sentinel of
\* request_with_backoff, another status, or (at the recursion limit) an exception
RequestOutcomes ==
    IF Len(stack) >= MaxDepth THEN {"raise"}
    ELSE IF hist.failures < hist.allowed THEN {"ok", "exhausted", "http_error"}
    ELSE {"ok"}

Failed(outcome) == outcome \in {"exhausted", "http_error"}

NoteFailure(h, failed) ==
    [h EXCEPT !.call_failed = @ \/ failed,
              !.clean = @ /\ ~failed,
              !.failures = @ + Cost(~failed),
              !.fetch_failed = IF failed THEN @ \cup {agent} ELSE @]

\* one iteration of the while loop of the innermost frame
FetchPage ==
    /\ pc = "mine" /\ ret = None /\ stack # <<>> /\ Top.pos = "loop"
    /\ LET f == Top IN
       IF debug_limit # None /\ f.total_in_partition >= debug_limit
       THEN /\ ReturnFromTop(f.total_in_partition)
            /\ UNCHANGED <<prs_by_id, hist>>
       ELSE
         \E outcome \in RequestOutcomes :
            IF outcome # "ok"
            THEN /\ ReturnFromTop(f.total_in_partition)
                 /\ hist' = NoteFailure(hist, Failed(outcome))
                 /\ UNCHANGED prs_by_id
            ELSE
              LET data == SearchPage(agent, pattern, Day(f.start), Day(f.end), f.page)
                  merged == AddItems(prs_by_id, data.items)
                  total == f.total_in_partition + (Len(merged) - Len(prs_by_id))
                  seen == {<<data.items[k].id, pattern>> : k \in 1..Len(data.items)}
                  over == data.total_count > ResultWindow
              IN  IF data.items = <<>>
                  THEN /\ ReturnFromTop(f.total_in_partition)
                       /\ hist' = [hist EXCEPT !.leaf_over = @ \/ over]
                       /\ UNCHANGED prs_by_id
                  ELSE /\ prs_by_id' = merged
                       /\ IF Overflow(data.total_count, f.page)
                          THEN LET mid == mid_date_of(f) IN
                               /\ stack' = Append(
                                     [stack EXCEPT ![Len(stack)] =
                                         [f EXCEPT !.total_in_partition = total,
                                                   !.pos = "first",
                                                   !.mid_date = mid]],
                                     NewFrame(f.start, mid))
                               /\ ret' = ret
                               /\ hist' = [hist EXCEPT !.delivered = @ \cup seen]
                          ELSE IF LastPage(data.items, f.page)
                          THEN /\ ReturnFromTop(total)
                               /\ hist' = [hist EXCEPT !.delivered = @ \cup seen,
                                                       !.leaf_over = @ \/ over]
                          ELSE /\ stack' = [stack EXCEPT ![Len(stack)] =
                                     [f EXCEPT !.total_in_partition = total,
                                               !.page = f.page + 1]]
                               /\ ret' = ret
                               /\ hist' = [hist EXCEPT !.delivered = @ \cup seen]
    /\ UNCHANGED <<envVars, storeVars, debugVars, pc, cycleVars, windowVars,
                   pattern, initial_count, saveVars>>

\* a recursive call returns to the frame that bisected
ReturnToCaller ==
    /\ pc = "mine" /\ ret # None /\ stack # <<>>
    /\ LET f == Top IN
       IF f.pos = "first"
       THEN /\ stack' = Append(
                  [stack EXCEPT ![Len(stack)] = [f EXCEPT !.pos = "second", !.count1 = ret]],
                  NewFrame(SecondHalfStart(f.mid_date), f.end))
            /\ ret' = None
       ELSE /\ f.pos = "second"
            /\ ReturnFromTop(SplitResult(f, ret))
    /\ UNCHANGED <<envVars, storeVars, debugVars, pc, cycleVars, windowVars,
                   pattern, initial_count, prs_by_id, saveVars, hist>>

\* ------------------------------------------------------------------------
\* extract_pr_metadata, group_metadata_by_date
\* ------------------------------------------------------------------------
\* an extraction that copies the raw closed timestamp
extract_pr_metadata_KeepsClosed(pr) ==
    [html_url |-> pr.html_url,
     created_at |-> pr.created_at,
     merged_at |-> pr.merged_at,
     closed_at |-> pr.closed_at]

extract_pr_metadata(pr) ==
    [html_url |-> pr.html_url,
     created_at |-> pr.created_at,
     merged_at |-> pr.merged_at,
     closed_at |-> IF pr.merged_at # None THEN None ELSE pr.closed_at]

SelectDay(list, d) == SelectSeq(list, LAMBDA m : m.created_at # None /\ Day(m.created_at) = d)

\* day groups in the order of their first record (dict insertion order)
RECURSIVE group_metadata_by_date(_)
group_metadata_by_date(list) ==
    IF list = <<>> THEN <<>>
    ELSE IF Head(list).created_at = None THEN group_metadata_by_date(Tail(list))
    ELSE LET d == Day(Head(list).created_at) IN
         <<[day |-> d, records |-> SelectDay(list, d)]>>
         \o group_metadata_by_date(
                SelectSeq(list, LAMBDA m : m.created_at = None \/ Day(m.created_at) # d))

\* ------------------------------------------------------------------------
\* save_pr_metadata_to_hf: the merge keyed by html_url
\* ------------------------------------------------------------------------
Urls(list) == {list[k].html_url : k \in 1..Len(list)}

\* mutant: a record is appended whether or not its url is a key already
DictPut_AlwaysAppend(d, meta) == Append(d, meta)

\* d[url] = meta on a dict kept as the list of its values, in insertion order
DictPut(d, meta) ==
    IF meta.html_url \in Urls(d)
    THEN [k \in 1..Len(d) |-> IF d[k].html_url = meta.html_url THEN meta ELSE d[k]]
    ELSE Append(d, meta)

\* {meta['html_url']: meta for meta in list if meta.get('html_url')}, then update
RECURSIVE DictUpdate(_, _)
DictUpdate(d, list) ==
    IF list = <<>> THEN d
    ELSE DictUpdate(IF Head(list).html_url # None THEN DictPut(d, Head(list)) ELSE d,
                    Tail(list))

\* mutant: on a key collision the existing record wins
Upsert_ExistingWins(existing_metadata, day_metadata) ==
    DictUpdate(DictUpdate(<<>>, day_metadata), DictUpdate(<<>>, existing_metadata))

\* existing_by_url.update(new_by_url); list(existing_by_url.values())
Upsert(existing_metadata, day_metadata) ==
    DictUpdate(DictUpdate(<<>>, existing_metadata), DictUpdate(<<>>, day_metadata))

AllDays == 0..Day(Max(MaxNow, FetchNow))
AllYears == {Year(d) : d \in AllDays}

\* the day files of an identity present in the store
AgentDays(a) == {d \in AllDays : shards[<<a, d>>] # <<>>}

\* ------------------------------------------------------------------------
\* get_latest_pr_date_for_agent
\* ------------------------------------------------------------------------
CreatedIn(a, days) ==
    UNION {{shards[<<a, d>>][k].created_at : k \in 1..Len(shards[<<a, d>>])} : d \in days}
        \ {None}

MaxOf(S) == IF S = {} THEN None ELSE CHOOSE x \in S : \A y \in S : y <= x

\* listing: list_repo_files succeeded; readable: the files hf_hub_download could read
get_latest_pr_date_for_agent(a, listing, readable) ==
    IF ~listing THEN None ELSE MaxOf(CreatedIn(a, readable))

\* the outcomes of listing the repository and downloading the day files
ReadChoices(days) ==
    IF hist.failures < hist.allowed
    THEN {[listing |-> FALSE, readable |-> {}]}
         \cup {[listing |-> TRUE, readable |-> R] : R \in SUBSET days}
    ELSE {[listing |-> TRUE, readable |-> days]}

AllRead(choice, days) == choice.listing /\ choice.readable = days

\* mutant: the fetch starts at the watermark itself
start_from_of_NoStep(latest) == latest

\* start_from = latest_pr_date + timedelta(seconds=1), or None
start_from_of(latest) == IF latest # None THEN latest + OneSecond ELSE None

\* start_date.strftime('%Y-%m-%d'): the first instant the query covers
QueriedStart(start) == Day(start) * DayLen

\* start_date = max(start_from_date, six_months_ago), or six_months_ago
WindowStart(start_from_date, current_time) ==
    LET six_months_ago == current_time - Lookback IN
    IF start_from_date # None THEN Max(start_from_date, six_months_ago)
    ELSE six_months_ago

\* ------------------------------------------------------------------------
\* load_pr_metadata_for_year, calculate_pr_stats_from_metadata
\* ------------------------------------------------------------------------
RECURSIVE ConcatDays(_, _)
ConcatDays(a, days) ==
    IF days = {} THEN <<>>
    ELSE LET d == CHOOSE x \in days : \A y \in days : x <= y IN
         shards[<<a, d>>] \o ConcatDays(a, days \ {d})

YearDaysOf(a, year) == {d \in AgentDays(a) : Year(d) = year}

DebugCacheUsed ==
    DEBUG_MODE /\ \E a \in Agents : DEBUG_PR_METADATA_CACHE[a] # <<>>

\* the records of identity a among what load_pr_metadata_for_year(year) returns
agent_metadata_of(a, year, choice) ==
    IF DebugCacheUsed THEN DEBUG_PR_METADATA_CACHE[a]
    ELSE IF ~choice.listing THEN <<>>
    ELSE ConcatDays(a, choice.readable)

\* round(n / d, 0), half to even
RoundDiv(n, d) ==
    LET q == n \div d
        r == n % d
    IN  IF 2 * r > d \/ (2 * r = d /\ q % 2 = 1) THEN q + 1 ELSE q

\* a rate taken over all records instead of the decided ones
calculate_pr_stats_from_metadata_OverTotal(metadata_list) ==
    LET total_prs == Len(metadata_list)
        merged == Len(SelectSeq(metadata_list, LAMBDA m : m.merged_at # None))
    IN  [total_prs |-> total_prs,
         merged |-> merged,
         acceptance_rate |->
            IF total_prs > 0 THEN RoundDiv(merged * 10000, total_prs) ELSE 0]

\* acceptance_rate is kept in hundredths of a percent (round(rate, 2) * 100)
calculate_pr_stats_from_metadata(metadata_list) ==
    LET total_prs == Len(metadata_list)
        merged == Len(SelectSeq(metadata_list, LAMBDA m : m.merged_at # None))
        closed_not_merged ==
            Len(SelectSeq(metadata_list,
                          LAMBDA m : m.closed_at # None /\ m.merged_at = None))
        total_decisions == merged + closed_not_merged
    IN  [total_prs |-> total_prs,
         merged |-> merged,
         acceptance_rate |->
            IF total_decisions > 0 THEN RoundDiv(merged * 10000, total_decisions) ELSE 0]

Row(a, stats) ==
    [github_identifier |-> a, total_prs |-> stats.total_prs,
     merged |-> stats.merged, acceptance_rate |-> stats.acceptance_rate]

\* cache_dict[identifier] = row
PutRow(rows, row) ==
    IF \E k \in 1..Len(rows) : rows[k].github_identifier = row.github_identifier
    THEN [k \in 1..Len(rows) |->
            IF rows[k].github_identifier = row.github_identifier THEN row ELSE rows[k]]
    ELSE Append(rows, row)

\* ------------------------------------------------------------------------
\* fetch_all_prs_metadata: the loop over query_patterns and the extraction
\* ------------------------------------------------------------------------
BeginPass(latest) ==
    /\ latest_pr_date' = latest
    /\ start_date' = WindowStart(start_from_of(latest), now)
    /\ end_date' = now
    /\ pattern' = 1
    /\ initial_count' = 0
    /\ prs_by_id' = <<>>
    /\ stack' = <<NewFrame(start_date', end_date')>>
    /\ ret' = None

NextPattern ==
    /\ pc = "mine" /\ ret # None /\ stack = <<>>
    /\ IF pattern < NumPatterns
       THEN /\ pattern' = pattern + 1
            /\ initial_count' = Len(prs_by_id)
            /\ stack' = <<NewFrame(start_date, end_date)>>
            /\ ret' = None
            /\ hist' = [hist EXCEPT !.call_failed = FALSE, !.leaf_over = FALSE]
            /\ UNCHANGED <<pc, saveVars>>
       ELSE /\ new_metadata' = [k \in 1..Len(prs_by_id) |-> extract_pr_metadata(prs_by_id[k])]
            /\ pc' = IF new_metadata' # <<>> THEN "save" ELSE "aggregate"
            /\ grouped' = IF DEBUG_MODE THEN <<>> ELSE group_metadata_by_date(new_metadata')
            /\ UNCHANGED <<pattern, initial_count, stack, ret, hist>>
    /\ UNCHANGED <<envVars, storeVars, debugVars, cycleVars, windowVars, prs_by_id>>

\* ------------------------------------------------------------------------
\* save_pr_metadata_to_hf
\* ------------------------------------------------------------------------
\* the download of an existing day file may fail; an absent file is the normal
\* "No existing file found" case
ShardReadOutcomes(key) == IF shards[key] = <<>> THEN {TRUE} ELSE Outcomes(hist.failures)

SaveReport(existing, batch, merged) ==
    [outcome |-> "written",
     replaced |-> Cardinality(Urls(existing) \cap Urls(batch)),
     added |-> Cardinality(Urls(batch) \ Urls(existing)),
     kept |-> Cardinality(Urls(existing) \ Urls(batch))]

\* one iteration of the loop over grouped.items() (production mode)
SaveShard ==
    /\ pc = "save" /\ ~DEBUG_MODE /\ grouped # <<>>
    /\ LET g == Head(grouped)
           key == <<agent, g.day>>
       IN  \E read_ok \in ShardReadOutcomes(key) :
           \E upload_ok \in Outcomes(hist.failures + Cost(read_ok)) :
             LET existing_metadata == IF read_ok THEN shards[key] ELSE <<>>
                 merged_metadata == Upsert(existing_metadata, g.records)
             IN  IF upload_ok
                 THEN /\ shards' = [shards EXCEPT ![key] = merged_metadata]
                      /\ grouped' = Tail(grouped)
                      /\ pc' = IF Tail(grouped) = <<>> THEN "aggregate" ELSE "save"
                      /\ hist' = [hist EXCEPT
                            !.clean = @ /\ read_ok,
                            !.failures = @ + Cost(read_ok),
                            !.tried = @ \cup {g.day},
                            !.last_save =
                                IF read_ok
                                THEN SaveReport(shards[key], g.records, merged_metadata)
                                ELSE [NoSave EXCEPT !.outcome = "read_failed"]]
                 ELSE /\ grouped' = <<>>
                      /\ pc' = "aggregate"
                      /\ hist' = [hist EXCEPT
                            !.clean = FALSE,
                            !.failures = @ + Cost(read_ok) + 1,
                            !.tried = @ \cup {g.day},
                            !.last_save = [NoSave EXCEPT !.outcome = "upload_failed"]]
                      /\ UNCHANGED shards
    /\ UNCHANGED <<envVars, leaderboard, debugVars, cycleVars, windowVars, pattern,
                   initial_count, prs_by_id, stack, ret, new_metadata>>

\* a debug save that also writes the first day shard of the batch
SaveDebug_AlsoUploads ==
    /\ pc = "save" /\ DEBUG_MODE
    /\ DEBUG_PR_METADATA_CACHE' =
          [DEBUG_PR_METADATA_CACHE EXCEPT
              ![agent] = Upsert(DEBUG_PR_METADATA_CACHE[agent], new_metadata)]
    /\ shards' = [shards EXCEPT ![<<agent, Day(new_metadata[1].created_at)>>] =
                                    Upsert(@, new_metadata)]
    /\ pc' = "aggregate"
    /\ UNCHANGED <<envVars, leaderboard, DEBUG_MODE, DEBUG_LEADERBOARD_CACHE, cycleVars,
                   windowVars, pattern, initial_count, prs_by_id, stack, ret, saveVars,
                   hist>>

\* debug mode: the records go to the in-memory cache only
SaveDebug ==
    /\ pc = "save" /\ DEBUG_MODE
    /\ DEBUG_PR_METADATA_CACHE' =
          [DEBUG_PR_METADATA_CACHE EXCEPT
              ![agent] = Upsert(DEBUG_PR_METADATA_CACHE[agent], new_metadata)]
    /\ pc' = "aggregate"
    /\ UNCHANGED <<envVars, storeVars, DEBUG_MODE, DEBUG_LEADERBOARD_CACHE, cycleVars,
                   windowVars, pattern, initial_count, prs_by_id, stack, ret, saveVars,
                   hist>>

\* ------------------------------------------------------------------------
\* update_all_agents_incremental, run_once
\* ------------------------------------------------------------------------
\* a loop that jumps to the last entry that has an identifier
NextEntry_Last(i) ==
    LET later == {j \in (i + 1)..Len(roster) : roster[j] # ""}
    IN  IF later = {} THEN 0 ELSE CHOOSE j \in later : \A k \in later : j >= k

\* for agent in agents: the next roster entry after entry i that has a
\* github_identifier (entries without one are skipped), 0 when there is none
NextEntry(i) ==
    LET later == {j \in (i + 1)..Len(roster) : roster[j] # ""}
    IN  IF later = {} THEN 0 ELSE CHOOSE j \in later : \A k \in later : j <= k

\* load_agents_from_hf, then the first identity that has an identifier
StartCycle ==
    /\ pc = "idle" /\ hist.cycles < MaxCycles
    /\ \E roster_ok \in Outcomes(hist.failures) :
         /\ pc' = IF ~roster_ok THEN "done"
                  ELSE IF NextEntry(0) = 0 THEN "publish" ELSE "watermark"
         /\ hist' = [hist EXCEPT !.clean = roster_ok, !.fetch_failed = {},
                                 !.failures = @ + Cost(roster_ok),
                                 !.cycles = @ + 1,
                                 !.attempted = IF roster_ok /\ NextEntry(0) # 0
                                               THEN <<NextEntry(0)>> ELSE <<>>,
                                 !.rowed = {}]
    /\ agent_idx' = IF NextEntry(0) = 0 THEN 1 ELSE NextEntry(0)
    /\ current_year' = Year(Day(now))
    /\ cache_dict' = <<>>
    /\ UNCHANGED <<envVars, storeVars, debugVars, latest_pr_date, windowVars, pattern,
                   initial_count, prs_by_id, stack, ret, saveVars>>

\* get_latest_pr_date_for_agent, then fetch_all_prs_metadata up to its first request
ResolveWatermark ==
    /\ pc = "watermark"
    /\ \E choice \in ReadChoices(AgentDays(agent)) :
         /\ BeginPass(get_latest_pr_date_for_agent(agent, choice.listing, choice.readable))
         /\ hist' = [hist EXCEPT
               !.clean = @ /\ AllRead(choice, AgentDays(agent)),
               !.failures = @ + Cost(AllRead(choice, AgentDays(agent))),
               !.call_failed = FALSE, !.leaf_over = FALSE, !.delivered = {}]
    /\ pc' = "mine"
    /\ UNCHANGED <<envVars, storeVars, debugVars, agent_idx, current_year, cache_dict,
                   saveVars>>

Persisted(id) ==
    upstream[id].html_url \in Urls(shards[<<upstream[id].agent, Day(upstream[id].created_at)>>])

InLookback(id) == upstream[id].created_at >= now - Lookback

\* the items of the identity inside the days queried by the pass that matched a
\* pattern and are not in the identity's day shard
LeftBehind ==
    {id \in DOMAIN upstream :
        /\ upstream[id].agent = agent
        /\ Day(upstream[id].created_at) \in Day(start_date)..Day(end_date)
        /\ upstream[id].pats \cap (1..NumPatterns) # {}
        /\ ~Persisted(id)}

\* load_pr_metadata_for_year, the identity's row, then the next identity
Aggregate ==
    /\ pc = "aggregate"
    /\ \E choice \in ReadChoices(YearDaysOf(agent, current_year)) :
         /\ cache_dict' = PutRow(cache_dict,
               Row(agent, calculate_pr_stats_from_metadata(
                              agent_metadata_of(agent, current_year, choice))))
         /\ hist' = [hist EXCEPT
               !.clean = @ /\ (DebugCacheUsed \/ AllRead(choice, YearDaysOf(agent, current_year))),
               !.failures = @ + Cost(DebugCacheUsed \/ AllRead(choice, YearDaysOf(agent, current_year))),
               !.prior_watermark[agent] = Max(@, latest_pr_date),
               !.missed = IF agent \in hist.fetch_failed THEN @ \cup LeftBehind ELSE @,
               !.call_failed = FALSE, !.leaf_over = FALSE, !.delivered = {},
               !.rowed = @ \cup {agent_idx}, !.tried = {},
               !.attempted = IF NextEntry(agent_idx) # 0
                             THEN Append(@, NextEntry(agent_idx)) ELSE @]
    /\ IF NextEntry(agent_idx) # 0
       THEN /\ agent_idx' = NextEntry(agent_idx)
            /\ pc' = "watermark"
       ELSE /\ agent_idx' = agent_idx
            /\ pc' = "publish"
    /\ latest_pr_date' = None
    /\ start_date' = 0 /\ end_date' = 0
    /\ pattern' = 1 /\ initial_count' = 0
    /\ prs_by_id' = <<>>
    /\ new_metadata' = <<>> /\ grouped' = <<>>
    /\ UNCHANGED <<envVars, storeVars, debugVars, current_year, stack, ret>>

\* except Exception ... continue: an exception raised anywhere in the try body
\* of one identity ends that identity's processing without a row; the loop goes
\* on with the next roster entry
AgentRaises ==
    /\ pc \in {"watermark", "mine", "save", "aggregate"}
    /\ hist.failures < hist.allowed
    /\ hist' = [hist EXCEPT
          !.clean = FALSE, !.failures = @ + 1,
          !.call_failed = FALSE, !.leaf_over = FALSE, !.delivered = {},
          !.tried = {},
          !.attempted = IF NextEntry(agent_idx) # 0
                        THEN Append(@, NextEntry(agent_idx)) ELSE @]
    /\ IF NextEntry(agent_idx) # 0
       THEN /\ agent_idx' = NextEntry(agent_idx)
            /\ pc' = "watermark"
       ELSE /\ agent_idx' = agent_idx
            /\ pc' = "publish"
    /\ latest_pr_date' = None
    /\ start_date' = 0 /\ end_date' = 0
    /\ pattern' = 1 /\ initial_count' = 0
    /\ prs_by_id' = <<>>
    /\ stack' = <<>> /\ ret' = None
    /\ new_metadata' = <<>> /\ grouped' = <<>>
    /\ UNCHANGED <<envVars, storeVars, debugVars, current_year, cache_dict>>

\* run_once: if cache_dict: save_leaderboard_to_hf(cache_dict)
Publish ==
    /\ pc = "publish"
    /\ IF cache_dict = <<>>
       THEN UNCHANGED <<leaderboard, DEBUG_LEADERBOARD_CACHE, hist>>
       ELSE IF DEBUG_MODE
       THEN /\ DEBUG_LEADERBOARD_CACHE' = cache_dict
            /\ UNCHANGED <<leaderboard, hist>>
       ELSE \E upload_ok \in Outcomes(hist.failures) :
            /\ leaderboard' = IF upload_ok
                              THEN [leaderboard EXCEPT ![Year(Day(now))] = cache_dict]
                              ELSE leaderboard
            /\ hist' = [hist EXCEPT !.clean = @ /\ upload_ok,
                                    !.failures = @ + Cost(upload_ok)]
            /\ UNCHANGED DEBUG_LEADERBOARD_CACHE
    /\ pc' = "done"
    /\ UNCHANGED <<envVars, shards, DEBUG_MODE, DEBUG_PR_METADATA_CACHE, cycleVars,
                   windowVars, pattern, initial_count, prs_by_id, stack, ret, saveVars>>

\* the cycle has ended; main() sleeps until the next run_once
FinishCycle ==
    /\ pc = "done"
    /\ pc' = "idle"
    /\ hist' = [hist EXCEPT
          !.prev_clean = hist.clean,
          !.prev_year = current_year,
          !.prev_shards = shards,
          !.prev_leaderboard = leaderboard,
          !.last_save = NoSave,
          !.changed = FALSE,
          !.attempted = <<>>, !.rowed = {}]
    /\ UNCHANGED <<envVars, storeVars, debugVars, cycleVars, windowVars, pattern,
                   initial_count, prs_by_id, stack, ret, saveVars>>

\* ------------------------------------------------------------------------
\* The environment between two cycles: time passes, pull requests are opened,
\* merged and closed
\* ------------------------------------------------------------------------
PatternSets == {{1}, {1, 2}, {3}}
CreatedPatternSets == {{1}, {2, 3}}

\* the provider's stamp of a merge or a close; the program reads only whether
\* merged_at and closed_at are set, never their value
StampOf(id) == upstream[id].created_at + OneSecond

RawPR(id, a, t, ps) ==
    [agent |-> a, html_url |-> 100 + id, created_at |-> t,
     merged_at |-> None, closed_at |-> None, pats |-> ps]

\* the environment is followed up to the start of the last cycle
Tick ==
    /\ pc = "idle" /\ now + HalfDay <= MaxNow /\ hist.cycles < MaxCycles
    /\ now' = now + HalfDay
    /\ UNCHANGED <<roster, upstream, storeVars, debugVars, pc, cycleVars, windowVars,
                   pattern, initial_count, prs_by_id, stack, ret, saveVars, hist, rb>>

UpstreamStep(new_upstream) ==
    /\ pc = "idle" /\ hist.cycles < MaxCycles
    /\ upstream' = new_upstream
    /\ hist' = [hist EXCEPT !.changed = TRUE]
    /\ UNCHANGED <<now, roster, storeVars, debugVars, pc, cycleVars, windowVars, pattern,
                   initial_count, prs_by_id, stack, ret, saveVars, rb>>

CreatePR ==
    /\ Cardinality(DOMAIN upstream) < MaxUpstream
    /\ \E k \in 1..Len(roster), ps \in CreatedPatternSets :
         LET id == Cardinality(DOMAIN upstream) + 1 IN
         UpstreamStep(upstream @@ (id :> RawPR(id, roster[k], now, ps)))

IsOpen(id) == upstream[id].merged_at = None /\ upstream[id].closed_at = None

\* a merge sets both timestamps of the raw item
MergePR ==
    \E id \in DOMAIN upstream :
        /\ IsOpen(id)
        /\ UpstreamStep([upstream EXCEPT ![id].merged_at = StampOf(id),
                                       ![id].closed_at = StampOf(id)])

ClosePR ==
    \E id \in DOMAIN upstream :
        /\ IsOpen(id)
        /\ UpstreamStep([upstream EXCEPT ![id].closed_at = StampOf(id)])

\* ------------------------------------------------------------------------
\* Spec: the miner run in a loop (production mode), from an empty store
\* ------------------------------------------------------------------------
IdlePass ==
    /\ agent_idx = 1
    /\ current_year = 0
    /\ cache_dict = <<>>
    /\ latest_pr_date = None
    /\ start_date = 0 /\ end_date = 0
    /\ pattern = 1 /\ initial_count = 0
    /\ prs_by_id = <<>>
    /\ stack = <<>> /\ ret = None
    /\ new_metadata = <<>> /\ grouped = <<>>

EmptyStore ==
    /\ shards = [key \in Agents \X AllDays |-> <<>>]
    /\ leaderboard = [y \in AllYears |-> <<>>]
    /\ DEBUG_PR_METADATA_CACHE = [a \in Agents |-> <<>>]
    /\ DEBUG_LEADERBOARD_CACHE = <<>>

Init ==
    /\ now = 0
    /\ roster = <<"a1">>
    /\ upstream = <<>>
    /\ EmptyStore
    /\ DEBUG_MODE = FALSE
    /\ pc = "idle"
    /\ IdlePass
    /\ hist = HistInit
    /\ rb = NoCall

\* With at most MaxUpstream < ResultWindow pull requests no query of Spec
\* overflows (NoBisection below), so no frame ever waits for a recursive call;
\* the bisection is the subject of FetchSpec.
Next ==
    \/ Tick \/ CreatePR \/ MergePR \/ ClosePR
    \/ StartCycle \/ ResolveWatermark
    \/ FetchPage \/ NextPattern
    \/ SaveShard \/ Aggregate \/ Publish \/ FinishCycle

Spec == Init /\ [][Next]_vars

\* ------------------------------------------------------------------------
\* FetchSpec: one mining pass of one identity over every provider data set of
\* MaxPRs pull requests.  Ids are given in creation order, so only the day of
\* created_at distinguishes two data sets.
\* ------------------------------------------------------------------------
FetchInit ==
    /\ now = FetchNow
    /\ roster = <<"a1">>
    /\ \E day \in [1..MaxPRs -> 0..Day(FetchNow)], ps \in [1..MaxPRs -> PatternSets] :
          /\ \A i \in 1..(MaxPRs - 1) : day[i] <= day[i + 1]
          /\ upstream = [id \in 1..MaxPRs |-> RawPR(id, roster[1], day[id] * DayLen, ps[id])]
    /\ EmptyStore
    /\ DEBUG_MODE \in BOOLEAN
    /\ pc = "mine"
    /\ agent_idx = 1
    /\ current_year = Year(Day(now))
    /\ cache_dict = <<>>
    /\ \E latest \in {None, FetchNow - OneDay - OneSecond, FetchNow - OneSecond} :
          /\ latest_pr_date = latest
          /\ start_date = WindowStart(start_from_of(latest), now)
    /\ end_date = now
    /\ pattern = 1 /\ initial_count = 0
    /\ prs_by_id = <<>>
    /\ stack = <<NewFrame(start_date, end_date)>>
    /\ ret = None
    /\ new_metadata = <<>> /\ grouped = <<>>
    /\ hist = HistInit
    /\ rb = NoCall

FetchNext == FetchPage \/ ReturnToCaller \/ NextPattern

FetchSpec == FetchInit /\ [][FetchNext]_vars

NoBisection == Len(stack) <= 1

\* ------------------------------------------------------------------------
\* RosterSpec: RosterCycles cycles over a roster of several entries, in
\* production mode and in debug mode, with up to MaxFailures + 1 failures; the
\* provider's data is fixed during the run.  A production run starts from an
\* empty store; a debug run starts from an empty store or from the store an
\* earlier production run left (the record and the row of identity a2)
\* ------------------------------------------------------------------------
RosterCycles == 2

Rosters == {<<"a1", "a2">>, <<"a2", "", "a1">>, <<"", "a1">>, <<"">>}

PRStates == {"open", "merged", "closed"}

\* a pull request in one of its three provider states
RawPRIn(id, a, t, ps, st) ==
    [RawPR(id, a, t, ps) EXCEPT
        !.merged_at = IF st = "merged" THEN t + OneSecond ELSE None,
        !.closed_at = IF st = "open" THEN None ELSE t + OneSecond]

RosterInit ==
    /\ now = FetchNow
    /\ roster \in Rosters
    /\ \E d \in {1, 2}, st \in [1..3 -> PRStates] :
          upstream = <<RawPRIn(1, "a1", OneDay, {1}, st[1]),
                       RawPRIn(2, "a1", d * DayLen + OneSecond, {1, 2}, st[2]),
                       RawPRIn(3, "a2", OneDay, {3}, st[3])>>
    /\ DEBUG_MODE \in BOOLEAN
    /\ \E left \in (IF DEBUG_MODE THEN BOOLEAN ELSE {FALSE}) :
          LET record == extract_pr_metadata(upstream[3])
          IN  /\ shards = [key \in Agents \X AllDays |->
                             IF left /\ key = <<"a2", Day(OneDay)>>
                             THEN <<record>> ELSE <<>>]
              /\ leaderboard = [y \in AllYears |->
                             IF left /\ y = Year(Day(FetchNow))
                             THEN <<Row("a2", calculate_pr_stats_from_metadata(<<record>>))>>
                             ELSE <<>>]
    /\ DEBUG_PR_METADATA_CACHE = [a \in Agents |-> <<>>]
    /\ DEBUG_LEADERBOARD_CACHE = <<>>
    /\ pc = "idle"
    /\ IdlePass
    /\ hist = [HistInit EXCEPT !.allowed = MaxFailures + 1,
                               !.cycles = MaxCycles - RosterCycles]
    /\ rb = NoCall

RosterNext ==
    \/ StartCycle \/ ResolveWatermark
    \/ FetchPage \/ NextPattern
    \/ SaveShard \/ SaveDebug \/ Aggregate \/ AgentRaises
    \/ Publish \/ FinishCycle

RosterSpec == RosterInit /\ [][RosterNext]_vars

\* ------------------------------------------------------------------------
\* StatsSpec: calculate_pr_stats_from_metadata applied, by the aggregation
\* step of one identity, to every list of up to StatsLen records
\* ------------------------------------------------------------------------
StatsLen == 4

\* a stored record: merged_at and closed_at are each null or set
RecordKinds == BOOLEAN \X BOOLEAN

RecordOfKind(k, kind) ==
    [html_url |-> 100 + k, created_at |-> OneDay,
     merged_at |-> IF kind[1] THEN OneDay + OneSecond ELSE None,
     closed_at |-> IF kind[2] THEN OneDay + OneSecond ELSE None]

StatsInit ==
    /\ now = FetchNow
    /\ roster = <<"a1">>
    /\ upstream = <<>>
    /\ shards = [key \in Agents \X AllDays |-> <<>>]
    /\ leaderboard = [y \in AllYears |-> <<>>]
    /\ DEBUG_MODE = TRUE
    /\ \E n \in 0..StatsLen : \E kinds \in [1..n -> RecordKinds] :
          DEBUG_PR_METADATA_CACHE =
              [a \in Agents |-> IF a = "a1"
                                THEN [k \in 1..n |-> RecordOfKind(k, kinds[k])]
                                ELSE <<>>]
    /\ DEBUG_LEADERBOARD_CACHE = <<>>
    /\ pc = "aggregate"
    /\ agent_idx = 1
    /\ current_year = Year(Day(now))
    /\ cache_dict = <<>>
    /\ latest_pr_date = None
    /\ start_date = 0 /\ end_date = 0
    /\ pattern = 1 /\ initial_count = 0
    /\ prs_by_id = <<>>
    /\ stack = <<>> /\ ret = None
    /\ new_metadata = <<>> /\ grouped = <<>>
    /\ hist = [HistInit EXCEPT !.attempted = <<1>>]
    /\ rb = NoCall

StatsNext == Aggregate

StatsSpec == StatsInit /\ [][StatsNext]_vars

\* ------------------------------------------------------------------------
\* BackoffSpec: one call of request_with_backoff, for every max_retries up to
\* the default and every sequence of attempt outcomes
\* ------------------------------------------------------------------------
minerVars == <<now, roster, upstream, shards, leaderboard, DEBUG_MODE,
               DEBUG_PR_METADATA_CACHE, DEBUG_LEADERBOARD_CACHE, pc, agent_idx,
               current_year, cache_dict, latest_pr_date, start_date, end_date, pattern,
               initial_count, prs_by_id, stack, ret, new_metadata, grouped, hist>>

\* requests.request returned a response
ResponseArrives ==
    /\ rb.pc = "try" /\ MoreAttempts(rb)
    /\ \E status \in StatusCodes, retry_after \in RetryAfterValues,
          reset_hdr \in ResetValues, jitter \in Jitter :
         IF Success(status) \/ ~Retryable(status)
         THEN rb' = [rb EXCEPT !.pc = "done", !.result = "response", !.status = status,
                               !.requests = @ + 1,
                               !.all_retry = @ /\ (status \in {403, 429} \cup (500..599))]
         ELSE rb' = [rb EXCEPT
                        !.pc = "sleep", !.status = status, !.after = "status",
                        !.wait = Clamp(StatusWait(status, retry_after, reset_hdr,
                                                  rb.delay, jitter), Seconds(120)),
                        !.requests = @ + 1,
                        !.all_retry = @ /\ (status \in {403, 429} \cup (500..599)),
                        !.seen = IF rb.trace
                                 THEN [retry_after |-> retry_after,
                                       reset_hdr |-> reset_hdr, jitter |-> jitter]
                                 ELSE @]
    /\ UNCHANGED minerVars

\* requests.request raised a RequestException
TransportFailure ==
    /\ rb.pc = "try" /\ MoreAttempts(rb)
    /\ \E jitter \in Jitter :
         rb' = [rb EXCEPT !.pc = "sleep", !.after = "transport",
                          !.wait = Clamp(Duration(rb.delay + jitter), Seconds(60)),
                          !.requests = @ + 1,
                          !.seen = IF rb.trace THEN [NoResponse EXCEPT !.jitter = jitter]
                                   ELSE @]
    /\ UNCHANGED minerVars

\* time.sleep(wait) ends; the delay doubles and the loop goes on
BackoffSleep ==
    /\ rb.pc = "sleep"
    /\ rb' = [rb EXCEPT !.pc = "try", !.attempt = @ + 1, !.delay = NextDelay(@),
                        !.sleeps = @ + 1, !.seen = NoResponse]
    /\ UNCHANGED minerVars

\* the loop is over: "Exceeded max retries", return None
GiveUp ==
    /\ rb.pc = "try" /\ ~MoreAttempts(rb)
    /\ rb' = [rb EXCEPT !.pc = "done", !.result = "none"]
    /\ UNCHANGED minerVars

BackoffInit ==
    /\ now = 0
    /\ roster = <<"a1">>
    /\ upstream = <<>>
    /\ EmptyStore
    /\ DEBUG_MODE = FALSE
    /\ pc = "idle"
    /\ IdlePass
    /\ hist = HistInit
    /\ \E n \in 0..DefaultMaxRetries : rb = NewCall(n)

BackoffNext == ResponseArrives \/ TransportFailure \/ BackoffSleep \/ GiveUp

\* the sleeps end and the loop goes on: every enabled step is taken eventually
BackoffSpec == BackoffInit /\ [][BackoffNext]_vars /\ WF_vars(BackoffNext)

\* ------------------------------------------------------------------------
\* WaitSpec: one call of request_with_backoff with the default max_retries, in
\* which the headers and the jitter of the attempt being slept on are kept
\* ------------------------------------------------------------------------
WaitInit ==
    /\ now = 0
    /\ roster = <<"a1">>
    /\ upstream = <<>>
    /\ EmptyStore
    /\ DEBUG_MODE = FALSE
    /\ pc = "idle"
    /\ IdlePass
    /\ hist = HistInit
    /\ rb = [NewCall(DefaultMaxRetries) EXCEPT !.trace = TRUE]

WaitSpec == WaitInit /\ [][BackoffNext]_vars

\* ========================================================================
\* Properties
\* ========================================================================
NoDuplicateIds(map) == Cardinality(Ids(map)) = Len(map)

IsPrefix(a, b) == Len(a) <= Len(b) /\ \A k \in 1..Len(a) : b[k] = a[k]

\* a top-level call of fetch_prs_with_time_partition has just returned
CallReturned == pc = "mine" /\ stack = <<>> /\ ret # None

InWindow(p) == Matches(agent, p, Day(start_date), Day(end_date))

\* the matches are spread over the date range: no calendar day of the range
\* holds more matches than one query can return
Spread(p) ==
    \A d \in Day(start_date)..Day(end_date) :
        Cardinality(Matches(agent, p, d, d)) <= ResultWindow

(* C1: partition completeness.  When no request of the call failed, no cap is
   set and the matches are spread over the date range, a returned call of
   fetch_prs_with_time_partition has bisected until every leaf sub-range
   reported at most ResultWindow matches, and the dedup map holds every provider
   item of the pattern created in [start_date, end_date], each id once. *)
C1_PartitionComplete ==
    (CallReturned /\ ~hist.call_failed /\ debug_limit = None /\ Spread(pattern))
    => /\ InWindow(pattern) \subseteq Ids(prs_by_id)
       /\ NoDuplicateIds(prs_by_id)
       /\ ~hist.leaf_over

\* a call over more than ResultWindow spread matches has returned, complete
C1_Witness ==
    /\ CallReturned /\ ~hist.call_failed /\ debug_limit = None /\ Spread(pattern)
    /\ Cardinality(InWindow(pattern)) > ResultWindow
    /\ InWindow(pattern) \subseteq Ids(prs_by_id)

(* C2: the value returned by a top-level call of fetch_prs_with_time_partition
   equals the number of items the call added to the dedup map
   (len(prs_by_id) after the call minus initial_count). *)
C2_ReturnIsNewlyAdded ==
    CallReturned => ret = Len(prs_by_id) - initial_count

DeliveredIds == {x[1] : x \in hist.delivered}

RecordsOf(id) ==
    {k \in 1..Len(new_metadata) : new_metadata[k].html_url = upstream[id].html_url}

\* the list fetch_all_prs_metadata returns holds one record per item delivered
OneRecordPerId ==
    /\ Len(new_metadata) = Cardinality(DeliveredIds)
    /\ \A id \in DeliveredIds : Cardinality(RecordsOf(id)) = 1

(* C8: cross-pattern dedup.  During a mining pass every step keeps the entries
   already in the dedup map as they are (none re-added, none overwritten by a
   later pattern or sub-range), the map never holds an id twice, and the list
   the pass returns holds exactly one record per provider item delivered. *)
C8_CrossPatternDedup ==
    [][pc = "mine" =>
          /\ IsPrefix(prs_by_id, prs_by_id')
          /\ NoDuplicateIds(prs_by_id')
          /\ (pc' # "mine" => OneRecordPerId')]_vars

\* a pass has ended in which two patterns delivered the same item
C8_Witness ==
    /\ pc \in {"save", "aggregate"}
    /\ \E id \in DeliveredIds :
          /\ Cardinality({p \in 1..NumPatterns : <<id, p>> \in hist.delivered}) >= 2
          /\ Cardinality(RecordsOf(id)) = 1

\* the running cycle follows a cycle that completed with no failure, and the
\* provider's data has not changed since that cycle ended
SteadyCycle == pc # "idle" /\ hist.cycles >= 2 /\ hist.prev_clean /\ ~hist.changed

RecordWithUrl(list, url) == {k \in 1..Len(list) : list[k].html_url = url}

(* C3: merge correctness of the shard upsert.  When the existing content of a
   day shard was read and the merged shard written, every record of the batch
   is in the new shard under its url exactly once (a record whose url existed
   replaces the old one), the cardinality grows by exactly the number of urls
   of the batch that were not in the shard, and every existing record whose
   url is not in the batch is written back unchanged, in its place. *)
C3_UpsertMerge ==
    [][(pc = "save" /\ hist'.last_save.outcome = "written") =>
          LET g == Head(grouped)
              old == shards[<<agent, g.day>>]
              new == shards'[<<agent, g.day>>]
          IN  /\ Len(new) = Len(old) + Cardinality(Urls(g.records) \ Urls(old))
              /\ \A k \in 1..Len(g.records) :
                    \E j \in 1..Len(new) :
                        /\ new[j] = g.records[k]
                        /\ RecordWithUrl(new, g.records[k].html_url) = {j}
              /\ \A k \in 1..Len(old) :
                    old[k].html_url \notin Urls(g.records) => new[k] = old[k]]_vars

\* an upsert has replaced a record and added one with a new url
C3_Witness ==
    /\ hist.last_save.outcome = "written"
    /\ hist.last_save.replaced >= 1
    /\ hist.last_save.added >= 1

\* an upsert has written back a record whose url was not in the batch
C3_KeptWitness == hist.last_save.outcome = "written" /\ hist.last_save.kept >= 1

StoreAsPreviousCycleLeftIt ==
    shards = hist.prev_shards /\ leaderboard = hist.prev_leaderboard

(* C4 (as stated): when a production cycle that follows a completed cycle with
   no upstream change ends with no failed request or store operation, every
   shard and the leaderboard snapshot are as the previous cycle left them. *)
C4_Idempotent_Original ==
    (pc = "done" /\ SteadyCycle /\ hist.clean) => StoreAsPreviousCycleLeftIt

(* C4 (amended): the same, for two cycles that run in the same calendar year;
   the leaderboard snapshot is a file named after the year of the save. *)
C4_Idempotent_SameYear ==
    (pc = "done" /\ SteadyCycle /\ hist.clean /\ current_year = hist.prev_year)
    => StoreAsPreviousCycleLeftIt

\* a steady cycle of the same year has rewritten a shard and ended cleanly
C4_Witness ==
    /\ pc = "done" /\ SteadyCycle /\ hist.clean /\ current_year = hist.prev_year
    /\ hist.last_save.outcome = "written" /\ hist.last_save.replaced >= 1
    /\ leaderboard[current_year] # <<>>

(* C5: steady state yields nothing to write.  In a cycle that follows a
   completed cycle with no upstream change, the mining pass of an identity that
   has a watermark returns an empty record list, so that no shard upsert is
   performed. *)
C5_SteadyStateEmpty ==
    (SteadyCycle /\ hist.clean /\ latest_pr_date # None /\ pc \in {"save", "aggregate"})
    => new_metadata = <<>> /\ pc # "save"

(* C6: watermark invariant.  The first instant covered by the queries of a
   mining pass is never earlier than now - lookback and never earlier than a
   watermark an earlier cycle resolved for the identity. *)
C6_WatermarkInvariant ==
    pc = "mine" =>
       /\ QueriedStart(start_date) >= now - Lookback
       /\ hist.prior_watermark[agent] # None
              => QueriedStart(start_date) >= hist.prior_watermark[agent]

(* C7: fetch window start.  The window handed to the mining pass ends at now;
   it starts at watermark + 1 second when a watermark exists and that is not
   older than now - lookback, and at now - lookback otherwise; the watermark is
   the latest created_at persisted for the identity when the store was read
   without failure. *)
C7_FetchWindow ==
    pc = "mine" =>
       /\ end_date = now
       /\ start_date =
             IF latest_pr_date # None /\ latest_pr_date + OneSecond >= now - Lookback
             THEN latest_pr_date + OneSecond
             ELSE now - Lookback
       /\ hist.clean => latest_pr_date = MaxOf(CreatedIn(agent, AgentDays(agent)))

\* a pass runs whose window starts one second after the watermark
C7_Witness ==
    /\ pc = "mine" /\ latest_pr_date # None
    /\ start_date = latest_pr_date + OneSecond
    /\ start_date > now - Lookback

\* a pass runs whose watermark is older than the lookback floor
C7_FloorWitness ==
    pc = "mine" /\ latest_pr_date # None /\ latest_pr_date + OneSecond < now - Lookback

(* C9: missed records are recovered.  When a cycle ends in which no request and
   no store operation failed, every item inside the lookback window that an
   earlier pass with a failed request left unpersisted is in its identity's day
   shard. *)
C9_MissedRecovered ==
    (pc = "done" /\ hist.clean /\ hist.cycles >= 2)
    => \A id \in hist.missed : InLookback(id) => Persisted(id)

(* C10: bounded retries.  One call of request_with_backoff issues at most
   max_retries HTTP attempts and then ends; it returns None exactly when it
   made max_retries attempts and every one of them ended in a 403, 429 or 5xx
   status or in a transport failure. *)
C10_BoundedRetries ==
    /\ [](/\ rb.requests <= rb.max_retries
          /\ rb.pc = "done" =>
                (rb.result = "none" <=> (rb.requests = rb.max_retries /\ rb.all_retry)))
    /\ <>(rb.pc = "done")

\* a call has given up after max_retries retried attempts
C10_Witness ==
    /\ rb.pc = "done" /\ rb.result = "none"
    /\ rb.max_retries = DefaultMaxRetries /\ rb.requests = DefaultMaxRetries
    /\ rb.sleeps = DefaultMaxRetries

\* a call has returned the response of its last allowed attempt
C10_LastAttemptWitness ==
    /\ rb.pc = "done" /\ rb.result = "response"
    /\ rb.requests = rb.max_retries /\ rb.max_retries = DefaultMaxRetries

\* the step is an HTTP attempt that ended with a response (no RequestException)
ResponseStep ==
    /\ rb'.requests = rb.requests + 1
    /\ ~(rb'.pc = "sleep" /\ rb'.after = "transport")

(* C11: no retry on other statuses.  An attempt of request_with_backoff whose
   response status is not 403, not 429 and not 5xx ends the call at once: the
   call returns that response, no sleep is started, and no step follows, however
   many attempts were retried before. *)
C11_NoRetryOnOtherStatus ==
    [][/\ (ResponseStep /\ rb'.status \notin ({403, 429} \cup (500..599)))
            => /\ rb'.pc = "done" /\ rb'.result = "response"
               /\ rb'.sleeps = rb.sleeps /\ rb'.wait = rb.wait
       /\ rb.pc = "done" => rb' = rb]_vars

\* a 404 has ended a call whose three earlier attempts were retried
C11_Witness ==
    /\ rb.pc = "done" /\ rb.result = "response" /\ rb.status = 404
    /\ rb.requests = 4 /\ rb.sleeps = 3

\* the roster entries that have an identifier, in roster order
WithIdentifier ==
    SelectSeq([i \in 1..Len(roster) |-> i], LAMBDA i : roster[i] # "")

RowIdentities == {cache_dict[k].github_identifier : k \in 1..Len(cache_dict)}

(* C12: failure isolation between identities.  In one cycle the roster entries
   that have an identifier are attempted once each, in roster order, whatever
   failed or raised for earlier entries: while the cycle runs the attempted
   entries are a prefix of them, the entry being processed is the last attempted
   one, and when the loop has ended all of them have been attempted.  The
   leaderboard map has one row for exactly the identities whose processing
   reached the aggregation. *)
C12_FailureIsolation ==
    /\ IsPrefix(hist.attempted, WithIdentifier)
    /\ pc \in {"watermark", "mine", "save", "aggregate"}
          => hist.attempted # <<>> /\ hist.attempted[Len(hist.attempted)] = agent_idx
    /\ pc = "publish"
          => /\ hist.attempted = WithIdentifier
             /\ RowIdentities = {roster[i] : i \in hist.rowed}
             /\ Len(cache_dict) = Cardinality(RowIdentities)

\* the first of two identities raised, the second one still got its row
C12_Witness ==
    /\ pc = "publish" /\ roster = <<"a2", "", "a1">>
    /\ hist.attempted = <<1, 3>> /\ hist.rowed = {3}
    /\ RowIdentities = {"a1"}

\* the day shards the records of the current upsert belong to
AffectedDays == {Day(new_metadata[k].created_at) : k \in 1..Len(new_metadata)}

(* C13: persistence failures are contained per shard.  When
   save_pr_metadata_to_hf has returned (production mode), every day shard
   affected by the upsert has been read, merged and attempted to be written,
   also when the write of an earlier day shard of the same upsert failed. *)
C13_ShardFailureContained ==
    (pc = "aggregate" /\ ~DEBUG_MODE /\ new_metadata # <<>>)
        => hist.tried = AffectedDays

\* the page request of this step returned the exhausted sentinel or a non-200
\* status
RequestFailedStep == pc = "mine" /\ hist'.failures = hist.failures + 1

(* C14: partial result on request failure.  When a page request of a partition
   returns the exhausted sentinel or a non-200 status, that invocation alone
   returns, with the count it accumulated so far, and the dedup map keeps every
   item.  A first half that has returned (failed or not) is always followed by
   the fetch of its sibling half, from the day after the midpoint to the
   parent's end, and a returned top-level call is always followed by the next
   query pattern until all patterns have run. *)
C14_PartialResultOnFailure ==
    [][/\ RequestFailedStep
            => /\ stack' = Below
               /\ ret' = Top.total_in_partition
               /\ prs_by_id' = prs_by_id
               /\ pattern' = pattern
       /\ (pc = "mine" /\ ret # None /\ stack # <<>> /\ Top.pos = "first")
            => /\ Len(stack') = Len(stack) + 1
               /\ stack'[Len(stack')] = NewFrame(Top.mid_date + OneDay, Top.end)
               /\ ret' = None
               /\ IsPrefix(prs_by_id, prs_by_id')
       /\ (CallReturned /\ pattern < NumPatterns)
            => /\ pattern' = pattern + 1
               /\ stack' = <<NewFrame(start_date, end_date)>>
               /\ ret' = None
               /\ prs_by_id' = prs_by_id]_vars

\* the request of a first half has failed after the parent collected a full
\* result window; the sibling half and further patterns are still to come
C14_Witness ==
    /\ pc = "mine" /\ hist.call_failed /\ ret # None
    /\ stack # <<>> /\ Top.pos = "first"
    /\ Len(prs_by_id) >= ResultWindow
    /\ pattern < NumPatterns

\* a top-level partition failed on its second page and returned the count of
\* its first page
C14_CountWitness ==
    /\ CallReturned /\ hist.call_failed /\ ret = per_page
    /\ Len(prs_by_id) = initial_count + per_page

MergedImpliesNotClosed(m) == m.merged_at # None => m.closed_at = None

(* C15: merge implies closed_at null.  For every raw match the miner holds that
   has a merge timestamp, extract_pr_metadata returns a record whose closed_at
   is null and whose other fields are the raw ones, whatever the raw closed
   timestamp is; every record of the list handed to save_pr_metadata_to_hf, and
   of every day group made from it, has closed_at null when merged_at is set. *)
C15_MergedImpliesClosedNull ==
    /\ \A k \in 1..Len(prs_by_id) :
          LET pr == prs_by_id[k]
              meta == extract_pr_metadata(pr)
          IN  /\ meta.merged_at = pr.merged_at
              /\ meta.html_url = pr.html_url /\ meta.created_at = pr.created_at
              /\ pr.merged_at # None => meta.closed_at = None
              /\ pr.merged_at = None => meta.closed_at = pr.closed_at
    /\ \A k \in 1..Len(new_metadata) : MergedImpliesNotClosed(new_metadata[k])
    /\ \A g \in 1..Len(grouped) : \A k \in 1..Len(grouped[g].records) :
          MergedImpliesNotClosed(grouped[g].records[k])

\* a merged pull request whose raw closed timestamp is set is about to be saved,
\* next to a closed, unmerged one that keeps its closed timestamp
C15_Witness ==
    /\ pc = "save"
    /\ \E k \in 1..Len(new_metadata) :
          /\ new_metadata[k].merged_at # None
          /\ \E id \in DOMAIN upstream :
                /\ upstream[id].html_url = new_metadata[k].html_url
                /\ upstream[id].closed_at # None
    /\ \E k \in 1..Len(new_metadata) :
          new_metadata[k].merged_at = None /\ new_metadata[k].closed_at # None

\* the list the aggregation of StatsSpec was applied to, and the row it made
StatsInput == DEBUG_PR_METADATA_CACHE["a1"]
StatsRow == cache_dict[1]

MergedCount == Cardinality({k \in 1..Len(StatsInput) : StatsInput[k].merged_at # None})

ClosedWithoutMerge ==
    Cardinality({k \in 1..Len(StatsInput) :
                    StatsInput[k].merged_at = None /\ StatsInput[k].closed_at # None})

Decided == MergedCount + ClosedWithoutMerge

(* C16: stats computation.  For every list of records the row made by the
   aggregation has total = number of records and merged = number of records
   with merged_at set; acceptance_rate (in hundredths of a percent) is 0 when
   no record is merged or closed without merge, and otherwise the multiple of
   0.01 nearest to merged / (merged + closed-without-merge) * 100; still-open
   records count in total only.  One merged, one closed and one open record
   give total 3, merged 1, rate 50.00. *)
C16_StatsComputation ==
    (pc = "publish" /\ cache_dict # <<>>)
        => /\ StatsRow.total_prs = Len(StatsInput)
           /\ StatsRow.merged = MergedCount
           /\ Decided = 0 => StatsRow.acceptance_rate = 0
           /\ Decided > 0 =>
                 /\ 2 * (StatsRow.acceptance_rate * Decided - MergedCount * 10000) <= Decided
                 /\ 2 * (MergedCount * 10000 - StatsRow.acceptance_rate * Decided) <= Decided
           /\ (Len(StatsInput) = 3 /\ MergedCount = 1 /\ ClosedWithoutMerge = 1)
                 => StatsRow.acceptance_rate = 5000

\* the row of the list <<merged, closed, open>>
C16_Witness ==
    /\ pc = "publish" /\ cache_dict # <<>>
    /\ Len(StatsInput) = 3
    /\ StatsInput[1].merged_at # None
    /\ StatsInput[2].merged_at = None /\ StatsInput[2].closed_at # None
    /\ StatsInput[3].merged_at = None /\ StatsInput[3].closed_at = None
    /\ StatsRow.total_prs = 3 /\ StatsRow.merged = 1
    /\ StatsRow.acceptance_rate = 5000

\* only still-open records: total > 0 and rate 0
C16_OpenOnlyWitness ==
    /\ pc = "publish" /\ cache_dict # <<>>
    /\ Len(StatsInput) = 2 /\ Decided = 0
    /\ StatsRow.total_prs = 2 /\ StatsRow.acceptance_rate = 0

\* a rate that needs rounding: 2 of 3 decided records are merged
C16_RoundedWitness ==
    /\ pc = "publish" /\ cache_dict # <<>>
    /\ MergedCount = 2 /\ Decided = 3
    /\ StatsRow.acceptance_rate = 6667

\* the items the current query pattern has added to the dedup map
new_prs == Len(prs_by_id) - initial_count

(* C17: debug cap.  In debug mode the retrieval for one query pattern of one
   identity adds at most DebugLimit items to the dedup map. *)
C17_DebugCap == (DEBUG_MODE /\ pc = "mine") => new_prs <= DebugLimit

(* C18: debug mode leaves the external store unchanged.  In debug mode no step
   of a cycle changes a day shard or a leaderboard snapshot of the store; the
   save puts the records of the pass into the in-memory metadata cache of the
   identity and the publication puts the leaderboard map into the in-memory
   leaderboard cache. *)
C18_DebugLeavesStore ==
    [][DEBUG_MODE =>
         /\ shards' = shards
         /\ leaderboard' = leaderboard
         /\ (pc = "save" /\ pc' = "aggregate")
               => Urls(new_metadata) \subseteq Urls(DEBUG_PR_METADATA_CACHE'[agent])
         /\ (pc = "publish" /\ cache_dict # <<>>)
               => DEBUG_LEADERBOARD_CACHE' = cache_dict]_vars

\* two debug cycles have ended over a store an earlier production run left:
\* both caches are filled, the store holds what it held
C18_Witness ==
    /\ DEBUG_MODE /\ pc = "done" /\ hist.cycles = MaxCycles
    /\ DEBUG_LEADERBOARD_CACHE # <<>>
    /\ DEBUG_PR_METADATA_CACHE["a1"] # <<>>
    /\ shards[<<"a2", Day(OneDay)>>] # <<>>
    /\ \A d \in AllDays : shards[<<"a1", d>>] = <<>>
    /\ Len(leaderboard[Year(Day(now))]) = 1

(* C19: an upsert never removes persisted data.  Every url a day shard held
   when the previous cycle ended is still held by that shard, at every moment
   of the following cycle, also when the read of the existing shard failed. *)
C19_UpsertNeverRemoves ==
    hist.prev_shards # <<>>
        => \A key \in DOMAIN shards :
              Urls(hist.prev_shards[key]) \subseteq Urls(shards[key])

\* the calendar days the query of an invocation covers (created:start..end)
DaysQueried(f) == Day(f.start)..Day(f.end)

(* C20: termination of the bisection.  Every recursive invocation of
   fetch_prs_with_time_partition queries a strictly smaller set of calendar
   days than the invocation that made it, so the recursion never reaches the
   depth at which the interpreter stops it. *)
C20_StrictlySmallerRanges ==
    pc = "mine"
        => /\ \A i \in 1..(Len(stack) - 1) :
                 /\ DaysQueried(stack[i + 1]) \subseteq DaysQueried(stack[i])
                 /\ DaysQueried(stack[i + 1]) # DaysQueried(stack[i])
           /\ Len(stack) < MaxDepth

\* the records of identity a held by the day shards of the current year
StoredThisYear(a) == ConcatDays(a, YearDaysOf(a, current_year))

(* C21: published totals match the store.  When the loop over the roster has
   ended (production mode), the row of every identity has total equal to the
   number of that identity's records in the day shards of the current year and
   merged equal to the number of those with merged_at set.  A save writes only
   the shards of the identity being processed, so these shards are the ones
   the identity's aggregation read. *)
C21_TotalsMatchStore ==
    (pc = "publish" /\ ~DEBUG_MODE)
        => \A k \in 1..Len(cache_dict) :
              LET stored == StoredThisYear(cache_dict[k].github_identifier)
              IN  /\ cache_dict[k].total_prs = Len(stored)
                  /\ cache_dict[k].merged =
                        Cardinality({i \in 1..Len(stored) : stored[i].merged_at # None})

\* the innermost invocation requests a page in this step and gets a 200
\* response
PageReceivedStep ==
    /\ pc = "mine" /\ ret = None /\ stack # <<>> /\ Top.pos = "loop"
    /\ ~(debug_limit # None /\ Top.total_in_partition >= debug_limit)
    /\ hist'.failures = hist.failures
    /\ Len(stack) < MaxDepth

\* the page the innermost invocation receives
PageReceived == SearchPage(agent, pattern, Day(Top.start), Day(Top.end), Top.page)

\* after this step the invocation that was innermost requests no page any more:
\* it has returned or it waits for its recursive sub-calls
NoFurtherRequest ==
    \/ stack' = Below
    \/ /\ Len(stack') = Len(stack) + 1
       /\ stack'[Len(stack)].pos = "first"

(* C22: pagination bounds.  Every invocation of fetch_prs_with_time_partition
   starts with page 1 and its page number is never above the page ceiling; a
   step changes the page number of an invocation only by adding one to the
   innermost one, and does so exactly when the page received was full and
   below the ceiling; a page holds at most per_page items; after an empty page
   or a page with fewer than per_page items the invocation requests no further
   page, and neither does it after the page at the ceiling. *)
C22_PaginationBounds ==
    [][/\ \A i \in 1..Len(stack') : stack'[i].page \in 1..PageCeiling
       /\ Len(stack') > Len(stack) => stack'[Len(stack')].page = 1
       /\ \A i \in 1..Min(Len(stack), Len(stack')) :
             \/ stack'[i].page = stack[i].page
             \/ /\ i = Len(stack) /\ PageReceivedStep
                /\ stack'[i].page = stack[i].page + 1
       /\ PageReceivedStep =>
             /\ Len(PageReceived.items) <= per_page
             /\ IF Len(PageReceived.items) < per_page \/ Top.page = PageCeiling
                THEN NoFurtherRequest
                ELSE /\ Len(stack') = Len(stack)
                     /\ stack'[Len(stack)].page = Top.page + 1
                     /\ stack'[Len(stack)].pos = "loop"]_vars

\* an invocation has returned after a full first page and a short second page
C22_Witness ==
    /\ CallReturned /\ ~DEBUG_MODE /\ ~hist.call_failed
    /\ pattern = 1 /\ ret = per_page + 1
    /\ Len(prs_by_id) = per_page + 1

\* an invocation has returned after the page at the ceiling, without overflow
C22_CeilingWitness ==
    /\ CallReturned /\ ~DEBUG_MODE /\ ~hist.call_failed
    /\ pattern = 1 /\ ret = ResultWindow /\ ~hist.leaf_over

(* C23: wait clamping.  Every sleep of request_with_backoff lasts between 1 and
   120 seconds when it follows a 403/429/5xx response and between 1 and 60
   seconds when it follows a transport failure, for every value of the
   Retry-After and rate-limit-reset headers and at every attempt. *)
C23_WaitClamped ==
    rb.pc = "sleep"
        => /\ rb.after \in {"status", "transport"}
           /\ Seconds(1) <= rb.wait
           /\ rb.after = "status" => rb.wait <= Seconds(120)
           /\ rb.after = "transport" => rb.wait <= Seconds(60)

\* the last attempt got a negative Retry-After: the sleep lasts one second
C23_Witness ==
    /\ rb.pc = "sleep" /\ rb.after = "status"
    /\ rb.attempt = DefaultMaxRetries - 1
    /\ rb.seen.retry_after = Header("num", Seconds(-5))
    /\ rb.wait = Seconds(1)

\* a rate-limit reset far in the future: the sleep lasts 120 seconds
C23_LargeResetWitness ==
    /\ rb.pc = "sleep" /\ rb.status = 429
    /\ rb.seen.retry_after = Absent
    /\ rb.seen.reset_hdr = Header("num", Seconds(1000))
    /\ rb.wait = Seconds(120)

\* a transport failure when the delay is 60 s and the jitter is not zero: the
\* sleep lasts 60 seconds
C23_TransportWitness ==
    /\ rb.pc = "sleep" /\ rb.after = "transport"
    /\ rb.delay = Seconds(60) /\ rb.seen.jitter = 1
    /\ rb.wait = Seconds(60)

\* v brought into [1 s, 120 s]
Within1And120(v) ==
    IF v < Seconds(1) THEN Seconds(1) ELSE IF v > Seconds(120) THEN Seconds(120) ELSE v

\* the rate-limit-reset header is looked at and gives a timestamp
ResetUsable == rb.status \in {403, 429} /\ rb.seen.reset_hdr.kind = "num"

(* C24: wait source priority.  The sleep after a 403/429/5xx response lasts the
   Retry-After value (brought into [1, 120] seconds) when the header is present
   and a number; otherwise, for 403/429 with a rate-limit-reset timestamp,
   reset - now + 2 seconds (brought into [1, 120]); otherwise the backoff delay
   plus a jitter of at most half a second (brought into [1, 120]).  The backoff
   delay at the k-th attempt is min(2^(k-1), 60) seconds, whatever determined
   the waits of the attempts before. *)
C24_WaitSourcePriority ==
    /\ rb.delay = Min(Seconds(2 ^ rb.attempt), Seconds(60))
    /\ (rb.pc = "sleep" /\ rb.after = "status") =>
          LET ra == rb.seen.retry_after
              rs == rb.seen.reset_hdr
          IN  /\ ra.kind = "num" => rb.wait = Within1And120(ra.value)
              /\ ra.kind = "inf" => rb.wait = Seconds(120)
              /\ (ra.kind \in {"absent", "bad"} /\ ResetUsable)
                    => rb.wait = Within1And120(rs.value + Seconds(2))
              /\ (ra.kind \in {"absent", "bad"} /\ ~ResetUsable)
                    => /\ rb.wait = Within1And120(rb.delay + rb.seen.jitter)
                       /\ rb.seen.jitter \in 0..1

\* the fourth attempt got a 403 with an unparseable Retry-After and a reset ten
\* seconds ahead: the sleep lasts 12 seconds, the delay has reached 8 seconds
C24_Witness ==
    /\ rb.pc = "sleep" /\ rb.status = 403 /\ rb.attempt = 3
    /\ rb.seen.retry_after = Header("bad", 0)
    /\ rb.seen.reset_hdr = Header("num", Seconds(10))
    /\ rb.wait = Seconds(12) /\ rb.delay = Seconds(8)

\* a 5xx with a reset header and no Retry-After sleeps the backoff delay
C24_BackoffWitness ==
    /\ rb.pc = "sleep" /\ rb.status = 500 /\ rb.attempt = 4
    /\ rb.seen.retry_after = Absent
    /\ rb.seen.reset_hdr = Header("num", Seconds(10))
    /\ rb.wait = Seconds(16) + 1

====
